---- MODULE Spec2Model ----
(***************************************************************************)
(* Student Companion App (app.py): four in-memory record stores and the    *)
(* request handlers that validate, append to, update and read them.        *)
(*                                                                         *)
(* Text (note text, mood text, task ids, mood labels) is a sequence of     *)
(* one-character strings, so that strip(), lower(), re.findall, the "in"   *)
(* substring test and str(int) are computed as Python computes them.       *)
(* Sentiment scores are in hundredths (polarity 0.2 is 20).                *)
(* The "timestamp" field of every record is written once from the wall     *)
(* clock and read by no handler; it is left out of the records.            *)
(***************************************************************************)
EXTENDS Integers, Sequences, FiniteSets

VARIABLES reminders, moods, tasks, study_sessions, last, created, inflight

vars == <<reminders, moods, tasks, study_sessions, last, created, inflight>>

\* ------------------------------------------------------------------ bounds

\* Most records the four stores hold together.
MaxRecords == 3

\* Most tasks, when the other three stores hold at most one record together.
MaxTasks == 10

\* Most requests waiting on the event loop at once.
MaxInflight == 2

\* ---------------------------------------------------------- reference data

SUBJECTS ==
    <<"Mathematics", "Physics", "Chemistry", "Biology", "History", "Literature",
      "Computer Science", "Economics", "Languages", "Other">>

NOTE_CATEGORIES ==
    <<"Lecture Notes", "Study Tips", "Research Ideas", "Questions", "Homework",
      "Project Ideas", "Other">>

STUDY_TIPS ==
    [focus |-> <<"Find a quiet study space",
                 "Use the Pomodoro Technique (25 min study, 5 min break)",
                 "Put your phone on silent mode",
                 "Take regular short breaks">>,
     memory |-> <<"Create mind maps for complex topics",
                  "Teach the concept to someone else",
                  "Use spaced repetition technique",
                  "Write summary notes after each study session">>,
     motivation |-> <<"Set specific, achievable goals",
                      "Reward yourself after completing tasks",
                      "Study with a friend or study group",
                      "Track your progress regularly">>]

\* The statuses update_task_status accepts.
TASK_STATUSES == <<"pending", "in-progress", "completed">>

\* Duration limits of a study session, in minutes.
MinDuration == 5
MaxDuration == 480
LongSession == 120

\* Sentiment thresholds in hundredths: 0.2, -0.2 and 0.5.
HappyPolarity == 20
SadPolarity == -20
StrongSubjectivity == 50

\* Keywords are longer than this many characters.
MinKeywordLen == 3

\* ------------------------------------------------------------ pure helpers

Range(s) == {s[i] : i \in DOMAIN s}

\* Python's "x in list".
InList(x, s) == \E i \in DOMAIN s : s[i] = x

UpperCase ==
    <<"A", "B", "C", "D", "E", "F", "G", "H", "I", "J", "K", "L", "M", "N", "O",
      "P", "Q", "R", "S", "T", "U", "V", "W", "X", "Y", "Z">>

LowerCase ==
    <<"a", "b", "c", "d", "e", "f", "g", "h", "i", "j", "k", "l", "m", "n", "o",
      "p", "q", "r", "s", "t", "u", "v", "w", "x", "y", "z">>

DigitChar == <<"0", "1", "2", "3", "4", "5", "6", "7", "8", "9">>

Whitespace == {" ", "\t", "\n", "\r"}

\* str.strip(): drop leading and trailing whitespace.
RECURSIVE LStrip(_)
LStrip(t) ==
    IF t = <<>> THEN <<>>
    ELSE IF Head(t) \in Whitespace THEN LStrip(Tail(t))
    ELSE t

RECURSIVE RStrip(_)
RStrip(t) ==
    IF t = <<>> THEN <<>>
    ELSE IF t[Len(t)] \in Whitespace THEN RStrip(SubSeq(t, 1, Len(t) - 1))
    ELSE t

Strip(t) == RStrip(LStrip(t))

\* str.lower(), one character and a whole text.
LowerChar(c) ==
    IF \E i \in DOMAIN UpperCase : UpperCase[i] = c
    THEN LowerCase[CHOOSE i \in DOMAIN UpperCase : UpperCase[i] = c]
    ELSE c

Lower(t) == [i \in DOMAIN t |-> LowerChar(t[i])]

\* The regular expression class \w.
IsWordChar(c) ==
    c \in Range(UpperCase) \cup Range(LowerCase) \cup Range(DigitChar) \cup {"_"}

\* re.findall(r'\b\w+\b', t): the maximal runs of word characters, in order.
RECURSIVE FindWords(_, _)
FindWords(t, run) ==
    IF t = <<>> THEN (IF run = <<>> THEN <<>> ELSE <<run>>)
    ELSE IF IsWordChar(Head(t)) THEN FindWords(Tail(t), Append(run, Head(t)))
    ELSE (IF run = <<>> THEN <<>> ELSE <<run>>) \o FindWords(Tail(t), <<>>)

STOP_WORDS ==
    <<<<"h", "a", "v", "e">>, <<"t", "h", "a", "t">>,
      <<"w", "i", "t", "h">>, <<"t", "h", "i", "s">>>>

\* The list comprehension of add_note: keep, lower-cased, the words longer
\* than three characters that are no stop word.
RECURSIVE KeepKeywords(_)
KeepKeywords(words) ==
    IF words = <<>> THEN <<>>
    ELSE LET word == Head(words)
         IN  (IF Len(word) > MinKeywordLen /\ ~InList(Lower(word), STOP_WORDS)
              THEN <<Lower(word)>> ELSE <<>>) \o KeepKeywords(Tail(words))

extract_keywords(note) == KeepKeywords(FindWords(note, <<>>))

\* Python's "sub in text" on strings.
Contains(text, sub) ==
    \E i \in 0..(Len(text) - Len(sub)) : SubSeq(text, i + 1, i + Len(sub)) = sub

\* str(n) for n >= 0: the decimal digits of n.
RECURSIVE Str(_)
Str(n) ==
    IF n < 10 THEN <<DigitChar[n + 1]>>
    ELSE Str(n \div 10) \o <<DigitChar[(n % 10) + 1]>>

\* ---------------------------------------------------------- request models

\* The pydantic models: a field the payload leaves out takes its default.
Note(payload) ==
    [note |-> payload.note,
     category |-> payload.category,
     priority |-> IF "priority" \in DOMAIN payload THEN payload.priority ELSE 1]

MoodText(payload) == [text |-> payload.text]

Task(payload) ==
    [title |-> payload.title,
     description |-> payload.description,
     due_date |-> payload.due_date,
     subject |-> payload.subject,
     priority |-> payload.priority,
     status |-> IF "status" \in DOMAIN payload THEN payload.status ELSE "pending"]

StudySession(payload) ==
    [subject |-> payload.subject,
     duration |-> payload.duration,
     goals |-> payload.goals,
     completed_goals |-> IF "completed_goals" \in DOMAIN payload
                         THEN payload.completed_goals ELSE <<>>]

TaskUpdate(payload) == [status |-> payload.status]

\* ------------------------------------------------------------------- state

NoCall == [op |-> "none", code |-> 0]

Idle == [op |-> "idle"]

Slots == 1..MaxInflight

Init ==
    /\ reminders = <<>>
    /\ moods = <<>>
    /\ tasks = <<>>
    /\ study_sessions = <<>>
    /\ last = NoCall
    /\ created = 0
    /\ inflight = [s \in Slots |-> Idle]

TotalRecords == Len(reminders) + Len(moods) + Len(tasks) + Len(study_sessions)

\* raise HTTPException(status_code, detail): the stores are as they were.
HTTPException(op, args, status_code, detail) ==
    /\ last' = [op |-> op, args |-> args, code |-> status_code, detail |-> detail]
    /\ UNCHANGED <<reminders, moods, tasks, study_sessions, created>>

\* ---------------------------------------------------------------- handlers

add_note(note_data) ==
    IF Strip(note_data.note) = <<>>
    THEN HTTPException("add_note", note_data, 400, "Note cannot be empty")
    ELSE IF ~InList(note_data.category, NOTE_CATEGORIES)
    THEN HTTPException("add_note", note_data, 400, "Invalid category")
    ELSE LET keywords == extract_keywords(note_data.note)
             reminder == [note |-> note_data.note,
                          keywords |-> keywords,
                          category |-> note_data.category,
                          priority |-> note_data.priority]
         IN  /\ reminders' = Append(reminders, reminder)
             /\ last' = [op |-> "add_note", args |-> note_data, code |-> 200,
                         body |-> [status |-> "Note added",
                                   keywords |-> keywords,
                                   note |-> note_data.note,
                                   category |-> note_data.category,
                                   priority |-> note_data.priority]]
             /\ created' = created + 1
             /\ UNCHANGED <<moods, tasks, study_sessions>>

Happy == <<"(smiling face)", " ", "H", "a", "p", "p", "y">>
Sad == <<"(sad face)", " ", "S", "a", "d">>
Neutral == <<"(neutral face)", " ", "N", "e", "u", "t", "r", "a", "l">>

Tired == <<"t", "i", "r", "e", "d">>
Exhausted == <<"e", "x", "h", "a", "u", "s", "t", "e", "d">>

\* Variant: the polarity thresholds are inclusive.
classify_mood_inclusive(text, polarity, subjectivity) ==
    IF polarity >= HappyPolarity
    THEN [mood |-> Happy,
          tip |-> IF subjectivity > StrongSubjectivity
                  THEN <<"Great mood! ", STUDY_TIPS.focus[1]>>
                  ELSE <<"Excellent! ", STUDY_TIPS.motivation[3]>>]
    ELSE IF polarity <= SadPolarity
    THEN [mood |-> Sad,
          tip |-> IF Contains(Lower(text), Tired) \/ Contains(Lower(text), Exhausted)
                  THEN <<"Take a refreshing break! ", STUDY_TIPS.focus[4]>>
                  ELSE <<"It's okay to feel down. ", STUDY_TIPS.motivation[2]>>]
    ELSE [mood |-> Neutral, tip |-> <<"Stay focused! ", STUDY_TIPS.memory[1]>>]

\* The if/elif/else of mood_check. A tip is <<prefix, tip>>, the two strings
\* the code joins with +.
classify_mood(text, polarity, subjectivity) ==
    IF polarity > HappyPolarity
    THEN [mood |-> Happy,
          tip |-> IF subjectivity > StrongSubjectivity
                  THEN <<"Great mood! ", STUDY_TIPS.focus[1]>>
                  ELSE <<"Excellent! ", STUDY_TIPS.motivation[3]>>]
    ELSE IF polarity < SadPolarity
    THEN [mood |-> Sad,
          tip |-> IF Contains(Lower(text), Tired) \/ Contains(Lower(text), Exhausted)
                  THEN <<"Take a refreshing break! ", STUDY_TIPS.focus[4]>>
                  ELSE <<"It's okay to feel down. ", STUDY_TIPS.motivation[2]>>]
    ELSE [mood |-> Neutral, tip |-> <<"Stay focused! ", STUDY_TIPS.memory[1]>>]

\* Variant: the new entry replaces the log instead of being appended to it.
mood_check_overwriting(mood_data, sentiment) ==
    IF Strip(mood_data.text) = <<>>
    THEN HTTPException("mood_check", mood_data, 400, "Text cannot be empty")
    ELSE LET c == classify_mood(mood_data.text, sentiment.polarity,
                                sentiment.subjectivity)
             mood_entry == [text |-> mood_data.text, mood |-> c.mood, tip |-> c.tip]
         IN  /\ moods' = <<mood_entry>>
             /\ last' = [op |-> "mood_check", args |-> mood_data, code |-> 200,
                         sentiment |-> sentiment,
                         body |-> [mood |-> c.mood, tip |-> c.tip,
                                   text |-> mood_data.text]]
             /\ created' = created + 1
             /\ UNCHANGED <<reminders, tasks, study_sessions>>

\* sentiment is what TextBlob(text).sentiment returns: polarity and
\* subjectivity, computed by the library after the text passed validation.
mood_check(mood_data, sentiment) ==
    IF Strip(mood_data.text) = <<>>
    THEN HTTPException("mood_check", mood_data, 400, "Text cannot be empty")
    ELSE LET polarity == sentiment.polarity
             subjectivity == sentiment.subjectivity
             c == classify_mood(mood_data.text, polarity, subjectivity)
             mood_entry == [text |-> mood_data.text, mood |-> c.mood, tip |-> c.tip]
         IN  /\ moods' = Append(moods, mood_entry)
             /\ last' = [op |-> "mood_check", args |-> mood_data, code |-> 200,
                         sentiment |-> sentiment,
                         body |-> [mood |-> c.mood, tip |-> c.tip,
                                   text |-> mood_data.text]]
             /\ created' = created + 1
             /\ UNCHANGED <<reminders, tasks, study_sessions>>

\* Variant: the id counts the records of all four stores.
task_entry_of_total(task, n) ==
    [title |-> task.title,
     description |-> task.description,
     due_date |-> task.due_date,
     subject |-> task.subject,
     priority |-> task.priority,
     status |-> task.status,
     id |-> Str(TotalRecords + 1)]

\* {**task.dict(), "id": str(len(tasks) + 1)}
task_entry_of(task, n) ==
    [title |-> task.title,
     description |-> task.description,
     due_date |-> task.due_date,
     subject |-> task.subject,
     priority |-> task.priority,
     status |-> task.status,
     id |-> Str(n + 1)]

add_task(task) ==
    IF ~InList(task.subject, SUBJECTS)
    THEN HTTPException("add_task", task, 400, "Invalid subject")
    ELSE LET task_entry == task_entry_of(task, Len(tasks))
         IN  /\ tasks' = Append(tasks, task_entry)
             /\ last' = [op |-> "add_task", args |-> task, code |-> 200,
                         body |-> task_entry]
             /\ created' = created + 1
             /\ UNCHANGED <<reminders, moods, study_sessions>>

\* The tip of a recorded session; pick is random.randint(0, 3).
session_tip(duration, pick) ==
    IF duration > LongSession THEN STUDY_TIPS.focus[2]
    ELSE STUDY_TIPS.memory[pick + 1]

\* Variant: the session is appended before its duration is checked.
record_study_session_append_first(session, pick) ==
    IF ~InList(session.subject, SUBJECTS)
    THEN HTTPException("record_study_session", session, 400, "Invalid subject")
    ELSE /\ study_sessions' = Append(study_sessions, session)
         /\ UNCHANGED <<reminders, moods, tasks>>
         /\ IF session.duration < MinDuration \/ session.duration > MaxDuration
            THEN /\ last' = [op |-> "record_study_session", args |-> session,
                             code |-> 400,
                             detail |-> "Duration must be between 5 and 480 minutes"]
                 /\ UNCHANGED created
            ELSE /\ last' = [op |-> "record_study_session", args |-> session,
                             code |-> 200,
                             body |-> [tip |-> session_tip(session.duration, pick),
                                       session |-> session]]
                 /\ created' = created + 1

\* Variant: the duration limits are exclusive.
record_study_session_exclusive(session, pick) ==
    IF ~InList(session.subject, SUBJECTS)
    THEN HTTPException("record_study_session", session, 400, "Invalid subject")
    ELSE IF session.duration <= MinDuration \/ session.duration >= MaxDuration
    THEN HTTPException("record_study_session", session, 400,
                       "Duration must be between 5 and 480 minutes")
    ELSE /\ study_sessions' = Append(study_sessions, session)
         /\ last' = [op |-> "record_study_session", args |-> session, code |-> 200,
                     body |-> [tip |-> session_tip(session.duration, pick),
                               session |-> session]]
         /\ created' = created + 1
         /\ UNCHANGED <<reminders, moods, tasks>>

record_study_session(session, pick) ==
    IF ~InList(session.subject, SUBJECTS)
    THEN HTTPException("record_study_session", session, 400, "Invalid subject")
    ELSE IF session.duration < MinDuration \/ session.duration > MaxDuration
    THEN HTTPException("record_study_session", session, 400,
                       "Duration must be between 5 and 480 minutes")
    ELSE /\ study_sessions' = Append(study_sessions, session)
         /\ last' = [op |-> "record_study_session", args |-> session, code |-> 200,
                     body |-> [tip |-> session_tip(session.duration, pick),
                               session |-> session]]
         /\ created' = created + 1
         /\ UNCHANGED <<reminders, moods, tasks>>

\* sum(session["duration"] for session in study_sessions)
RECURSIVE SumDurations(_)
SumDurations(sessions) ==
    IF sessions = <<>> THEN 0
    ELSE Head(sessions).duration + SumDurations(Tail(sessions))

\* dict.get(key, default)
DictGet(d, key, default) == IF key \in DOMAIN d THEN d[key] ELSE default

\* d[key] = value
DictSet(d, key, value) ==
    [k \in DOMAIN d \cup {key} |-> IF k = key THEN value ELSE d[k]]

\* Variant: a session's duration replaces its subject's entry.
RECURSIVE subjects_breakdown_overwriting(_, _)
subjects_breakdown_overwriting(sessions, subjects_studied) ==
    IF sessions = <<>> THEN subjects_studied
    ELSE LET session == Head(sessions)
         IN  subjects_breakdown_overwriting(
                 Tail(sessions),
                 DictSet(subjects_studied, session.subject, session.duration))

\* The loop that fills subjects_studied, started with an empty dict.
RECURSIVE subjects_breakdown(_, _)
subjects_breakdown(sessions, subjects_studied) ==
    IF sessions = <<>> THEN subjects_studied
    ELSE LET session == Head(sessions)
         IN  subjects_breakdown(
                 Tail(sessions),
                 DictSet(subjects_studied, session.subject,
                         DictGet(subjects_studied, session.subject, 0)
                             + session.duration))

EmptyDict == [k \in {} |-> 0]

\* len([x for x in s if keep(x)]) for the three filters of get_study_stats.
CountStatus(s, status) == Cardinality({i \in DOMAIN s : s[i].status = status})

CountMood(s, label) == Cardinality({i \in DOMAIN s : Contains(s[i].mood, label)})

\* round(tasks_completed / total_tasks * 100, 2), in hundredths of a percent,
\* ties to even; 0 when there is no task.
completion_rate(tasks_completed, total_tasks) ==
    IF total_tasks > 0
    THEN LET q == (tasks_completed * 10000) \div total_tasks
             r == (tasks_completed * 10000) % total_tasks
         IN  IF 2 * r > total_tasks \/ (2 * r = total_tasks /\ q % 2 = 1)
             THEN q + 1 ELSE q
    ELSE 0

study_stats ==
    [total_study_time_minutes |-> SumDurations(study_sessions),
     subjects_breakdown |-> subjects_breakdown(study_sessions, EmptyDict),
     task_completion_rate |->
         completion_rate(CountStatus(tasks, "completed"), Len(tasks)),
     total_notes |-> Len(reminders),
     mood_tracking |->
         [positive |-> CountMood(moods, <<"H", "a", "p", "p", "y">>),
          neutral |-> CountMood(moods, <<"N", "e", "u", "t", "r", "a", "l">>),
          negative |-> CountMood(moods, <<"S", "a", "d">>)]]

get_study_stats ==
    /\ last' = [op |-> "get_study_stats", code |-> 200, body |-> study_stats]
    /\ UNCHANGED <<reminders, moods, tasks, study_sessions, created>>

get_study_tips(category) ==
    IF category \notin DOMAIN STUDY_TIPS
    THEN HTTPException("get_study_tips", category, 400, "Invalid category")
    ELSE /\ last' = [op |-> "get_study_tips", args |-> category, code |-> 200,
                     body |-> [category |-> category, tips |-> STUDY_TIPS[category]]]
         /\ UNCHANGED <<reminders, moods, tasks, study_sessions, created>>

\* The for loop of update_task_status: the first task with that id.
Matching(task_id) == {i \in DOMAIN tasks : tasks[i].id = task_id}

FirstMatching(task_id) ==
    CHOOSE i \in Matching(task_id) : \A j \in Matching(task_id) : i <= j

\* Variant: the task is looked up before the status is checked.
update_task_status_lookup_first(task_id, task_update) ==
    LET args == [task_id |-> task_id, status |-> task_update.status]
    IN  IF Matching(task_id) = {}
        THEN HTTPException("update_task_status", args, 404, "Task not found")
        ELSE IF ~InList(task_update.status, TASK_STATUSES)
        THEN HTTPException("update_task_status", args, 400, "Invalid status")
        ELSE LET i == FirstMatching(task_id)
             IN  /\ tasks' = [tasks EXCEPT ![i].status = task_update.status]
                 /\ last' = [op |-> "update_task_status", args |-> args, code |-> 200,
                             body |-> [message |-> "Task status updated",
                                       task |-> tasks'[i]]]
                 /\ UNCHANGED <<reminders, moods, study_sessions, created>>

update_task_status(task_id, task_update) ==
    LET args == [task_id |-> task_id, status |-> task_update.status]
    IN  IF ~InList(task_update.status, TASK_STATUSES)
        THEN HTTPException("update_task_status", args, 400, "Invalid status")
        ELSE IF Matching(task_id) = {}
        THEN HTTPException("update_task_status", args, 404, "Task not found")
        ELSE LET i == FirstMatching(task_id)
             IN  /\ tasks' = [tasks EXCEPT ![i].status = task_update.status]
                 /\ last' = [op |-> "update_task_status", args |-> args, code |-> 200,
                             body |-> [message |-> "Task status updated",
                                       task |-> tasks'[i]]]
                 /\ UNCHANGED <<reminders, moods, study_sessions, created>>

all_data ==
    /\ last' = [op |-> "all_data", code |-> 200,
                body |-> [reminders |-> reminders,
                          mood_logs |-> moods,
                          tasks |-> tasks,
                          study_sessions |-> study_sessions,
                          available_subjects |-> SUBJECTS,
                          note_categories |-> NOTE_CATEGORIES]]
    /\ UNCHANGED <<reminders, moods, tasks, study_sessions, created>>

\* ---------------------------------------------------------------- requests

\* " This Exam"
ExamNote == <<" ", "T", "h", "i", "s", " ", "E", "x", "a", "m">>

\* "So Tired"
SoTired == <<"S", "o", " ", "T", "i", "r", "e", "d">>

Blank == <<" ", "\t">>

NotePayloads ==
    [note : {ExamNote, Blank}, category : {"Homework", "Gossip"}]
        \cup {[note |-> <<>>, category |-> "Homework"],
              [note |-> ExamNote, category |-> "Homework", priority |-> 5]}

MoodPayloads == [text : {<<"o", "k">>, Blank}]

\* What the sentiment library may return: one negative and one positive score.
Sentiments ==
    {[polarity |-> -21, subjectivity |-> 50], [polarity |-> 21, subjectivity |-> 51]}

TaskPayloads ==
    [title : {"Essay"}, description : {"two pages"}, due_date : {"2025-01-31"},
     subject : {"Mathematics", "Astrology"}, priority : {2}]

SessionPayloads ==
    [subject : {"Mathematics", "Astrology"}, duration : {4, 5, 480, 481},
     goals : {<<"revise">>}]

TipCategories == {"focus", "luck"}

TaskIds == {<<"1">>, <<"2">>, <<"1", "0">>, <<"9", "9", "9">>}

UpdatePayloads == [status : {"completed", "done"}]

\* random.randint(0, len(STUDY_TIPS["memory"]) - 1)
TipPicks == 0..(Len(STUDY_TIPS.memory) - 1)

\* The wider inputs of the specifications that exercise one store.
AllMoodPayloads == [text : {SoTired, <<"o", "k">>, Blank}]

\* Scores on both sides of, and exactly at, 0.2, -0.2 and 0.5.
AllSentiments == [polarity : {-21, -20, 20, 21}, subjectivity : {50, 51}]

AllTaskPayloads ==
    TaskPayloads
        \cup [title : {"Essay"}, description : {"two pages"},
              due_date : {"2025-01-31"}, subject : {"Mathematics", "Astrology"},
              priority : {2}, status : {"completed", "done"}]

AllTaskIds == TaskIds \cup {<<"3">>, <<"4">>, <<"0", "1">>}

AllUpdatePayloads == [status : {"pending", "in-progress", "completed", "done"}]

AllSessionPayloads ==
    [subject : {"Mathematics", "Physics", "Astrology"},
     duration : {4, 5, 30, 480, 481}, goals : {<<"revise">>}]

\* A create call that would pass MaxRecords is not taken.
Bounded == TotalRecords' <= MaxRecords

\* A run of add_task calls may go on to MaxTasks tasks beside at most one
\* record of the other stores.
SeriesBounded ==
    \/ Bounded
    \/ /\ Len(tasks') <= MaxTasks
       /\ Len(reminders') + Len(moods') + Len(study_sessions') <= 1

\* -------------------------------------------------- one request at a time

AddNote(payloads) ==
    /\ \E p \in payloads : add_note(Note(p)) /\ Bounded
    /\ UNCHANGED inflight

MoodCheck(payloads, sentiments) ==
    /\ \E p \in payloads, sentiment \in sentiments :
           mood_check(MoodText(p), sentiment) /\ Bounded
    /\ UNCHANGED inflight

AddTask(payloads) ==
    /\ \E p \in payloads : add_task(Task(p)) /\ Bounded
    /\ UNCHANGED inflight

AddTaskSeries(payloads) ==
    /\ \E p \in payloads : add_task(Task(p)) /\ SeriesBounded
    /\ UNCHANGED inflight

RecordStudySession(payloads) ==
    /\ \E p \in payloads, pick \in TipPicks :
           record_study_session(StudySession(p), pick) /\ Bounded
    /\ UNCHANGED inflight

GetStudyStats == get_study_stats /\ UNCHANGED inflight

GetStudyTips ==
    /\ \E category \in TipCategories : get_study_tips(category)
    /\ UNCHANGED inflight

UpdateTaskStatus(ids, payloads) ==
    /\ \E task_id \in ids, p \in payloads :
           update_task_status(task_id, TaskUpdate(p))
    /\ UNCHANGED inflight

AllData == all_data /\ UNCHANGED inflight

\* Every handler, on all four stores.
Next ==
    \/ AddNote(NotePayloads)
    \/ MoodCheck(MoodPayloads, Sentiments)
    \/ AddTaskSeries(TaskPayloads)
    \/ RecordStudySession(SessionPayloads)
    \/ GetStudyStats
    \/ GetStudyTips
    \/ UpdateTaskStatus(TaskIds, UpdatePayloads)
    \/ AllData

Spec == Init /\ [][Next]_vars

\* The task handlers, with every status a caller may send, beside the note
\* handler and the reads.
NextTasks ==
    \/ AddNote(NotePayloads)
    \/ AddTask(AllTaskPayloads)
    \/ UpdateTaskStatus(AllTaskIds, AllUpdatePayloads)
    \/ GetStudyStats
    \/ AllData

SpecTasks == Init /\ [][NextTasks]_vars

\* The session handler and the reads, with two subjects to break down.
NextSessions ==
    \/ RecordStudySession(AllSessionPayloads)
    \/ GetStudyStats
    \/ AllData

SpecSessions == Init /\ [][NextSessions]_vars

\* The mood handler and the reads, with scores around every threshold.
NextMoods ==
    \/ MoodCheck(AllMoodPayloads, AllSentiments)
    \/ GetStudyStats
    \/ AllData

SpecMoods == Init /\ [][NextMoods]_vars

\* ------------------------------------------------- requests in flight
\* The handlers are coroutines on one event loop. A request that has arrived
\* waits in a slot; the loop resumes one waiting coroutine at a time and runs
\* it to its next await. No handler body holds an await, so a resumed handler
\* runs from its first line to its return (or raise) in one step.

ConcRequests ==
    {[op |-> "add_task", payload |-> p] : p \in TaskPayloads}
        \cup {[op |-> "update_task_status", task_id |-> i, payload |-> p] :
                  i \in {<<"1">>, <<"2">>}, p \in [status : {"completed"}]}
        \cup {[op |-> "get_study_stats"], [op |-> "all_data"]}

Receive ==
    /\ \E s \in Slots, r \in ConcRequests :
           /\ inflight[s] = Idle
           /\ inflight' = [inflight EXCEPT ![s] = r]
    /\ UNCHANGED <<reminders, moods, tasks, study_sessions, last, created>>

Return(s) == inflight' = [inflight EXCEPT ![s] = Idle]

\* A suspension between reading len(tasks) and the append: the coroutine
\* keeps the length it read and appends when it is resumed.
add_task_suspending(s) ==
    /\ inflight[s].op = "add_task"
    /\ LET task == Task(inflight[s].payload)
       IN  IF ~InList(task.subject, SUBJECTS)
           THEN HTTPException("add_task", task, 400, "Invalid subject") /\ Return(s)
           ELSE IF "n" \notin DOMAIN inflight[s]
           THEN /\ inflight' = [inflight EXCEPT ![s] =
                        [op |-> "add_task", payload |-> inflight[s].payload,
                         n |-> Len(tasks)]]
                /\ UNCHANGED <<reminders, moods, tasks, study_sessions, last, created>>
           ELSE LET task_entry == task_entry_of(task, inflight[s].n)
                IN  /\ tasks' = Append(tasks, task_entry)
                    /\ last' = [op |-> "add_task", args |-> task, code |-> 200,
                                body |-> task_entry]
                    /\ created' = created + 1
                    /\ UNCHANGED <<reminders, moods, study_sessions>>
                    /\ Bounded
                    /\ Return(s)

add_task_coroutine(s) ==
    /\ inflight[s].op = "add_task"
    /\ add_task(Task(inflight[s].payload))
    /\ Bounded
    /\ Return(s)

update_task_status_coroutine(s) ==
    /\ inflight[s].op = "update_task_status"
    /\ update_task_status(inflight[s].task_id, TaskUpdate(inflight[s].payload))
    /\ Return(s)

get_study_stats_coroutine(s) ==
    /\ inflight[s].op = "get_study_stats"
    /\ get_study_stats
    /\ Return(s)

\* all_data is a plain def: it runs on a worker thread, and only reads.
all_data_call(s) ==
    /\ inflight[s].op = "all_data"
    /\ all_data
    /\ Return(s)

RunAddTask == \E s \in Slots : add_task_coroutine(s)

RunUpdateTaskStatus == \E s \in Slots : update_task_status_coroutine(s)

RunGetStudyStats == \E s \in Slots : get_study_stats_coroutine(s)

RunAllData == \E s \in Slots : all_data_call(s)

NextConc ==
    \/ Receive
    \/ RunAddTask
    \/ RunUpdateTaskStatus
    \/ RunGetStudyStats
    \/ RunAllData

SpecConc == Init /\ [][NextConc]_vars

\* ------------------------------------------------------------- properties

Accepted == last.code = 200

Rejected == last.code \in {400, 404}

OtherStores == Len(reminders) + Len(moods) + Len(study_sessions)

\* The number a decimal string denotes.
DigitValue(c) == CHOOSE d \in 0..9 : DigitChar[d + 1] = c

RECURSIVE Decimal(_)
Decimal(t) ==
    IF Len(t) = 1 THEN DigitValue(t[1])
    ELSE 10 * Decimal(SubSeq(t, 1, Len(t) - 1)) + DigitValue(t[Len(t)])

\* t is the decimal string of k: its digits denote k and it has no leading zero.
IsDecimalOf(t, k) ==
    /\ Len(t) >= 1
    /\ \A i \in DOMAIN t : t[i] \in Range(DigitChar)
    /\ t[1] # "0"
    /\ Decimal(t) = k

SequentialIds == \A k \in DOMAIN tasks : IsDecimalOf(tasks[k].id, k)

\* C1: in every reachable state the k-th task's id is the decimal string of k
\* (so ids are "1".."N" in call order and pairwise different, whatever the
\* other stores hold), and no step removes a task or changes a task's id.
C1_SequentialIds ==
    /\ []SequentialIds
    /\ [][\A k \in DOMAIN tasks :
              k \in DOMAIN tasks' /\ tasks'[k].id = tasks[k].id]_vars

\* Ten tasks beside a record of another store, the tenth just updated.
C1_Witness ==
    /\ Len(tasks) = 10
    /\ OtherStores = 1
    /\ tasks[10].id = <<"1", "0">>
    /\ last.op = "update_task_status"
    /\ Accepted
    /\ last.args.task_id = <<"1", "0">>
    /\ tasks[1].status = "pending"

\* C2 as claimed: every stored task's status is pending, in-progress or
\* completed.
C2_StatusInEnum ==
    \A i \in DOMAIN tasks : tasks[i].status \in {"pending", "in-progress", "completed"}

\* C3: a rejected call leaves all four stores exactly as they were.
C3_RejectedChangesNothing ==
    [][Rejected' => UNCHANGED <<reminders, moods, tasks, study_sessions>>]_vars

\* A session of 481 minutes rejected while the stores hold records.
C3_Witness ==
    /\ last.op = "record_study_session"
    /\ Rejected
    /\ last.args.duration = 481
    /\ InList(last.args.subject, SUBJECTS)
    /\ TotalRecords >= 1

HasTask(task_id) == \E i \in DOMAIN tasks : tasks[i].id = task_id

ValidStatus(status) == status \in {"pending", "in-progress", "completed"}

\* C4: update_task_status with an invalid status fails with 400 whether or not
\* the id exists; with a valid status and an unknown id it fails with 404;
\* otherwise it succeeds, and the step sets the status of the task with that
\* id and changes no other field, task or store.
C4_UpdateOnlyStatus ==
    /\ [](last.op = "update_task_status" =>
            /\ ~ValidStatus(last.args.status) => last.code = 400
            /\ (ValidStatus(last.args.status) /\ ~HasTask(last.args.task_id))
                   => last.code = 404
            /\ (ValidStatus(last.args.status) /\ HasTask(last.args.task_id))
                   => Accepted)
    /\ [][(last'.op = "update_task_status" /\ Accepted') =>
            /\ UNCHANGED <<reminders, moods, study_sessions>>
            /\ \E i \in DOMAIN tasks :
                   /\ tasks[i].id = last'.args.task_id
                   /\ tasks' = [tasks EXCEPT ![i].status = last'.args.status]
                   /\ last'.body.task = tasks'[i]]_vars

\* The first of two tasks updated beside a stored note; the second keeps
\* another status.
C4_Witness ==
    /\ last.op = "update_task_status"
    /\ Accepted
    /\ last.args.task_id = <<"1">>
    /\ Len(tasks) = 2
    /\ Len(reminders) = 1
    /\ tasks[1].status = "in-progress"
    /\ tasks[2].status = "completed"

\* The record a successful create call stored, read off its response.
Returned(r) ==
    IF r.op = "add_note"
    THEN [note |-> r.body.note, keywords |-> r.body.keywords,
          category |-> r.body.category, priority |-> r.body.priority]
    ELSE IF r.op = "mood_check"
    THEN [text |-> r.body.text, mood |-> r.body.mood, tip |-> r.body.tip]
    ELSE IF r.op = "add_task" THEN r.body
    ELSE r.body.session

CreateOps == {"add_note", "mood_check", "add_task", "record_study_session"}

\* C5: the stores together hold as many records as create calls succeeded,
\* and all_data returns those stores; a successful create appends the record
\* it returns to the end of its own store and leaves the other three alone;
\* every other call keeps every store's length.
C5_RecordsAreCreates ==
    /\ [](/\ TotalRecords = created
          /\ last.op = "all_data" =>
                /\ last.body.reminders = reminders
                /\ last.body.mood_logs = moods
                /\ last.body.tasks = tasks
                /\ last.body.study_sessions = study_sessions
                /\ Len(last.body.reminders) + Len(last.body.mood_logs)
                       + Len(last.body.tasks) + Len(last.body.study_sessions)
                       = created)
    /\ [][LET op == last'.op
              made == op \in CreateOps /\ Accepted'
          IN  /\ created' = IF made THEN created + 1 ELSE created
              /\ reminders' = IF made /\ op = "add_note"
                              THEN Append(reminders, Returned(last'))
                              ELSE reminders
              /\ moods' = IF made /\ op = "mood_check"
                          THEN Append(moods, Returned(last')) ELSE moods
              /\ Len(tasks') = Len(tasks) + IF made /\ op = "add_task" THEN 1 ELSE 0
              /\ (made /\ op = "add_task") =>
                     tasks' = Append(tasks, Returned(last'))
              /\ study_sessions' = IF made /\ op = "record_study_session"
                                   THEN Append(study_sessions, Returned(last'))
                                   ELSE study_sessions]_vars

\* all_data after three creates on three different stores.
C5_Witness ==
    /\ last.op = "all_data"
    /\ created = 3
    /\ Len(last.body.reminders) = 1
    /\ Len(last.body.tasks) = 1
    /\ Len(last.body.study_sessions) = 1

\* The sum of the durations of the sessions at the positions in I.
RECURSIVE DurationOver(_)
DurationOver(I) ==
    IF I = {} THEN 0
    ELSE LET i == CHOOSE i \in I : TRUE
         IN  study_sessions[i].duration + DurationOver(I \ {i})

SessionsOf(subject) == {i \in DOMAIN study_sessions : study_sessions[i].subject = subject}

StudiedSubjects == {study_sessions[i].subject : i \in DOMAIN study_sessions}

RECURSIVE SumValues(_, _)
SumValues(d, keys) ==
    IF keys = {} THEN 0
    ELSE LET k == CHOOSE k \in keys : TRUE
         IN  d[k] + SumValues(d, keys \ {k})

\* C6: get_study_stats returns the sum of all stored durations as the total,
\* and a breakdown whose keys are exactly the subjects with a stored session,
\* each with the sum of its sessions' durations, the values adding up to the
\* total; the call changes no store.
C6_StudyStats ==
    /\ [](last.op = "get_study_stats" =>
            LET b == last.body.subjects_breakdown
            IN  /\ last.body.total_study_time_minutes
                       = DurationOver(DOMAIN study_sessions)
                /\ DOMAIN b = StudiedSubjects
                /\ \A subject \in DOMAIN b : b[subject] = DurationOver(SessionsOf(subject))
                /\ SumValues(b, DOMAIN b) = last.body.total_study_time_minutes)
    /\ [][last'.op = "get_study_stats" =>
              UNCHANGED <<reminders, moods, tasks, study_sessions>>]_vars

\* Statistics over two Mathematics sessions and one Physics session.
C6_Witness ==
    /\ last.op = "get_study_stats"
    /\ Len(study_sessions) = 3
    /\ DOMAIN last.body.subjects_breakdown = {"Mathematics", "Physics"}
    /\ last.body.subjects_breakdown["Mathematics"] = 35
    /\ last.body.subjects_breakdown["Physics"] = 480
    /\ last.body.total_study_time_minutes = 515

\* C7 as claimed: every stored note and task has a priority from 1 to 3.
C7_PriorityInRange ==
    /\ \A i \in DOMAIN reminders : reminders[i].priority \in 1..3
    /\ \A i \in DOMAIN tasks : tasks[i].priority \in 1..3

\* C8: a session request is accepted exactly when its subject is listed and
\* 5 <= duration <= 480; every stored session has a listed subject and such a
\* duration, every stored note has a character that is not whitespace and a
\* listed category, and every stored task has a listed subject.
C8_StoredRecordsValid ==
    /\ last.op = "record_study_session" =>
           (Accepted <=> /\ last.args.subject \in Range(SUBJECTS)
                         /\ 5 <= last.args.duration
                         /\ last.args.duration <= 480)
    /\ \A i \in DOMAIN study_sessions :
           /\ study_sessions[i].subject \in Range(SUBJECTS)
           /\ study_sessions[i].duration \in 5..480
    /\ \A i \in DOMAIN reminders :
           /\ \E j \in DOMAIN reminders[i].note : reminders[i].note[j] \notin Whitespace
           /\ reminders[i].category \in Range(NOTE_CATEGORIES)
    /\ \A i \in DOMAIN tasks : tasks[i].subject \in Range(SUBJECTS)

\* Sessions of 5 and of 480 minutes stored beside a note.
C8_Witness ==
    /\ last.op = "record_study_session"
    /\ Accepted
    /\ Len(reminders) = 1
    /\ Len(study_sessions) = 2
    /\ study_sessions[1].duration = 5
    /\ study_sessions[2].duration = 480

C10_NoDuplicateIdsInFlight ==
    /\ \A i, j \in DOMAIN tasks : i # j => tasks[i].id # tasks[j].id
    /\ Len(tasks) = created
    /\ SequentialIds

\* Two tasks stored while an add_task and an update are waiting.
C10_Witness ==
    /\ Len(tasks) = 2
    /\ \E s, t \in Slots :
           /\ inflight[s].op = "add_task"
           /\ inflight[t].op = "update_task_status"
    /\ tasks[1].status = "completed"

====
